---- MODULE Spec2Model ----
(***************************************************************************)
(* Nabzram: the UI's bridge client (callApp), the log stream modal and the *)
(* backend operations it calls through window.pywebview.api (server        *)
(* control, status, log buffer, connectivity tests).                       *)
(*                                                                         *)
(* The UI side is translated from ui/components/LogStreamModal.tsx and the *)
(* API service; the backend operations are not part of the TypeScript      *)
(* sources and are modelled from their declared contract (docs/API.md,     *)
(* ui/types.ts and the design specification).                              *)
(***************************************************************************)
EXTENDS Integers, Sequences, FiniteSets, TLC

VARIABLES
    \* ---- callApp (services/api) ----
    callIn,       \* what the bridge does for the call in progress, or NoCall
    callOut,      \* how the promise returned by callApp settled, or NoOutcome
    \* ---- Log Buffer and LogStreamModal ----
    now,          \* the machine clock, in ms (Date.now() and the backend's clock)
    buffer,       \* Log Buffer: sequence of entries, oldest first
    appended,     \* number of entries appended so far (entry ids are 1..appended)
    snap,         \* the get_log_snapshot call of fetchInitialLogs
    logs,         \* LogStreamModal state `logs`: displayed entries
    isLoading,    \* LogStreamModal state `isLoading`
    error,        \* LogStreamModal state `error` (TRUE when a message is set)
    sinceMsRef,   \* sinceMsRef.current: NoMs (null) or a number
    intervals,   \* number of active setInterval(poll, 1500) timers
    mounted,      \* the modal is mounted
    polls,        \* the get_log_stream_batch calls issued so far, in issue order
    \* ---- Orchestration Facade and Process Supervisor (backend) ----
    handles,      \* main-connection process handles, by pid: their supervisor state
    active,       \* the ActiveConnection singleton, or NoActive
    mutex,        \* holder of the facade lock, or NoClient
    clock,        \* the backend clock (start_time values)
    pc,           \* per caller: where its bridge call stands
    req,          \* per caller: the call's arguments and handler locals
    resp,         \* per caller: the response returned, or NoResp
    \* ---- Connectivity Tester (backend) ----
    testBatch,    \* the test batch in progress: its input servers, in input order
    probes,       \* per input position: the probe's state and the ports it holds
    results,      \* per input position: the TestResult, or NoResult
    testResp,     \* the test_subscription_servers response, or NoTestResp
    \* ---- the webview: clock and bridge injection ----
    wallMs,       \* Date.now() of the webview, in ms since the page was loaded
    bridgeAt,     \* when window.pywebview.api became available, or NoTime
    \* ---- ensureApiReady (services/api) ----
    apiReadyPromise,  \* the module-level cache: a promise id, or NoPromise (null)
    promises,     \* the promises ensureApiReady created, by id
    calls,        \* per caller: its callApp invocation awaiting ensureApiReady
    \* ---- application start (index.tsx) ----
    bootStartTime,    \* `startTime`, taken when the script is evaluated
    pendingChecks,    \* waitForApi invocations that are due or scheduled
    renderAppCalls,   \* number of renderApp() invocations
    renderErrorCalls, \* number of renderError() invocations
    \* ---- ThemeProvider (contexts/ThemeContext) ----
    theme,        \* state `theme`
    font,         \* state `font`: a string, as its sequence of characters
    frontendApi,  \* window.frontendApi is installed
    appearanceCall,   \* the get_appearance call of initializeAppearance
    stored,       \* the appearance persisted by the backend
    updateCalls   \* the update_appearance calls issued so far, in issue order,
                  \* each with the font name setFont was given

callVars == <<callIn, callOut>>
logVars  == <<now, buffer, appended, snap, logs, isLoading, error, sinceMsRef,
              intervals, mounted, polls>>

srvVars == <<handles, active, mutex, clock, pc, req, resp>>
testVars == <<testBatch, probes, results, testResp>>
envVars == <<wallMs, bridgeAt>>
readyVars == <<apiReadyPromise, promises, calls>>
bootVars == <<bootStartTime, pendingChecks, renderAppCalls, renderErrorCalls>>
themeVars == <<theme, font, frontendApi, appearanceCall, stored, updateCalls>>

\* the backend and the parts of the UI that talk to it once the bridge is up
backVars == <<callVars, logVars, srvVars, testVars>>
\* the webview and the parts of the UI that depend on the bridge coming up
uiVars == <<envVars, readyVars, bootVars, themeVars>>

NULL == "null"

\* null in a `number | null` field (next_since_ms, sinceMsRef.current)
NoMs == -1

(***************************************************************************)
(* JavaScript values as the bridge can return them.  Only what callApp     *)
(* inspects is kept: the type, the truthiness, and for an object its       *)
(* `success`, `message` and `data` members.                                *)
(***************************************************************************)
JsTypes == {"null", "undefined", "boolean", "number", "string", "array", "object"}

\* the value of res.success: undefined (absent), true, false, null, 0, "false"
SuccessValues == {"absent", "true", "false", "null", "zero", "falseString"}

\* res.message: undefined, "" or a non-empty text
MessageValues == {"absent", "empty", "text"}

\* res.data: undefined, {} or an object with keys
DataValues == {"absent", "empty", "nonempty"}

JsValue(t, truthy, success, message, data) ==
    [t |-> t, truthy |-> truthy, success |-> success, message |-> message, data |-> data]

\* null, undefined; false/true; 0/1; ""/"x"; arrays; objects
BridgeValues ==
    { JsValue(t, FALSE, "absent", "absent", "absent") : t \in {"null", "undefined"} }
    \cup { JsValue(t, b, "absent", "absent", "absent") :
              t \in {"boolean", "number", "string"}, b \in BOOLEAN }
    \cup { JsValue("array", TRUE, "absent", "absent", "absent") }
    \cup { JsValue("object", TRUE, s, m, d) :
              s \in SuccessValues, m \in MessageValues, d \in DataValues }

\* typeof v
TypeOf(v) ==
    CASE v.t \in {"null", "array", "object"} -> "object"
      [] OTHER -> v.t

Methods == {"get_log_snapshot", "get_log_stream_batch", "stop_server"}

NoCall == [method |-> NULL]
NoOutcome == [kind |-> NULL]

\* What the bridge does for one call: the method may be missing from the api
\* object, it may throw, or it returns a value.
BridgeBehaviours ==
    [method : Methods, hasMethod : BOOLEAN, throws : BOOLEAN, ret : BridgeValues]

\* `res && typeof res === 'object' && res.success === false`, with !res.success
IsFailureEnvelopeLoose(res) ==
    res.truthy /\ TypeOf(res) = "object" /\ res.success \in {"absent", "false", "null", "zero"}

\* `res && typeof res === 'object' && res.success === false`
IsFailureEnvelope(res) ==
    res.truthy /\ TypeOf(res) = "object" /\ res.success = "false"

\* `${res.message || 'Operation failed'}${extra}`
ErrorMessage(res) ==
    [text  |-> IF res.message = "text" THEN "message" ELSE "Operation failed",
     extra |-> res.data = "nonempty"]

Rejected(err) == [kind |-> "rejected", error |-> err, value |-> NULL]
Resolved(v)   == [kind |-> "resolved", error |-> NULL, value |-> v]

\* callApp(method, ...args), given what the bridge does once the api object
\* is there
callApp(b) ==
    IF ~b.hasMethod THEN Rejected("App API not available")
    ELSE IF b.throws THEN Rejected("bridge threw")
    ELSE IF IsFailureEnvelope(b.ret) THEN Rejected(ErrorMessage(b.ret))
    ELSE Resolved(b.ret)

CallInit ==
    /\ callIn = NoCall
    /\ callOut = NoOutcome

\* A caller invokes callApp and the returned promise settles.
CallApp ==
    /\ callIn = NoCall
    /\ \E b \in BridgeBehaviours :
         /\ callIn' = b
         /\ callOut' = callApp(b)
    /\ UNCHANGED <<logVars, srvVars, testVars, uiVars>>

\* The caller has handled the outcome.
CallSettled ==
    /\ callIn # NoCall
    /\ callIn' = NoCall
    /\ callOut' = NoOutcome
    /\ UNCHANGED <<logVars, srvVars, testVars, uiVars>>

NextCall == CallApp \/ CallSettled

(***************************************************************************)
(* Log Buffer (backend) and LogStreamModal (UI).                           *)
(***************************************************************************)
MaxTime == 3        \* the clock runs from 1 to MaxTime
MaxEntries == 2     \* number of log lines the proxy core writes
MaxPolls == 2       \* number of timer ticks (get_log_stream_batch calls)
LogCapacity == 1    \* Log Buffer capacity: beyond it the oldest entry is evicted

SnapshotLimit == 200   \* api.getLogSnapshot(200)
PollLimit == 200       \* api.getLogStreamBatch(since, 200)

Entry(id, ts) == [id |-> id, timestamp |-> ts]

\* the last n elements of s, oldest first
LastN(s, n) == IF Len(s) <= n THEN s ELSE SubSeq(s, Len(s) - n + 1, Len(s))

\* the first n elements of s
FirstN(s, n) == IF Len(s) <= n THEN s ELSE SubSeq(s, 1, n)

\* Log Buffer append(entry): beyond capacity the oldest entry is dropped
BufferAppend(buf, e) == LastN(Append(buf, e), LogCapacity)

\* Log Buffer snapshot(limit): the most recent `limit` entries, oldest first
BufferSnapshot(buf, limit) == LastN(buf, limit)

\* membership test used by since(): an entry strictly after the cursor
StrictlyAfter(e, cursor) == cursor = NoMs \/ e.timestamp > cursor

\* Log Buffer since(cursor, limit): the entries strictly after cursor, oldest
\* first, at most `limit` of them
BufferSince(buf, cursor, limit) ==
    FirstN(SelectSeq(buf, LAMBDA e : StrictlyAfter(e, cursor)), limit)

\* nextCursor: the timestamp of the last entry returned, "no advance" (null)
\* when nothing was returned
NextCursor(batch) == IF Len(batch) = 0 THEN NoMs ELSE batch[Len(batch)].timestamp

\* get_log_snapshot(limit) success payload
LogSnapshotResponse(buf, limit) ==
    [ok |-> TRUE, logs |-> BufferSnapshot(buf, limit)]

\* get_log_stream_batch(since_ms, limit) success payload
LogStreamBatchResponse(buf, since, limit) ==
    LET batch == BufferSince(buf, since, limit)
    IN  [ok |-> TRUE, logs |-> batch, next_since_ms |-> NextCursor(batch)]

\* a call that callApp turns into a rejected promise (failure envelope or throw)
FailedResponse == [ok |-> FALSE, logs |-> <<>>, next_since_ms |-> NoMs]

\* JavaScript truthiness of `response.next_since_ms` (number | null)
Truthy(n) == n # NoMs /\ n # 0

\* poll, with the cursor always replaced: `sinceMsRef.current = next ?? Date.now()`
CursorAfterPollAdvancing(cur, response, t) ==
    IF Truthy(response.next_since_ms) THEN response.next_since_ms ELSE t

\* poll: `if (response.next_since_ms) sinceMsRef.current = response.next_since_ms`
CursorAfterPoll(cur, response, t) ==
    IF Truthy(response.next_since_ms) THEN response.next_since_ms ELSE cur

\* poll: `if (response.logs && response.logs.length > 0) setLogs(prev => [...prev, ...response.logs])`
LogsAfterPoll(prev, response) ==
    IF Len(response.logs) > 0 THEN prev \o response.logs ELSE prev

\* the polling effect looking at isLoading only
PollingEffectWhenLoaded(loading, err) == ~loading

\* The polling effect: runs on [isLoading, error]; no interval while loading or
\* after a failed initial load
PollingEffect(loading, err) == ~(loading \/ err)

\* the effect's cleanup, `return () => clearInterval(intervalId)`, left out
CleanupNone(n, loading, err) == n

\* The cleanup of one run of the polling effect: it clears the interval that
\* run created, if it created one
Cleanup(n, loading, err) == IF PollingEffect(loading, err) THEN n - 1 ELSE n

\* useEffect(..., [isLoading, error]) after a render: when a dependency has
\* changed the previous run is cleaned up and the effect runs again, creating
\* an interval unless it returns early
EffectRun(n, loading0, err0, loading1, err1) ==
    IF loading0 = loading1 /\ err0 = err1
    THEN n
    ELSE IF PollingEffect(loading1, err1)
         THEN Cleanup(n, loading0, err0) + 1
         ELSE Cleanup(n, loading0, err0)

\* the catch block of poll reporting the failure in the modal: `setError(...)`
ErrorAfterPollFailureShown(err) == TRUE

\* the catch block of poll: `console.error(...)`, no state is touched
ErrorAfterPollFailure(err) == err

LogInit ==
    /\ now = 1
    /\ buffer = <<>>
    /\ appended = 0
    /\ snap = [stage |-> "req", ok |-> TRUE, logs |-> <<>>, upTo |-> 0]
    /\ logs = <<>>
    /\ isLoading = TRUE
    /\ error = FALSE
    /\ sinceMsRef = NoMs
    /\ intervals = 0
    /\ mounted = TRUE
    /\ polls = <<>>

\* One millisecond passes.
Tick ==
    /\ now < MaxTime
    /\ now' = now + 1
    /\ UNCHANGED <<buffer, appended, snap, logs, isLoading, error, sinceMsRef,
                   intervals, mounted, polls>>
    /\ UNCHANGED <<callVars, srvVars, testVars, uiVars>>

\* The supervisor reads an output line of the proxy core and appends it.
LogAppend ==
    /\ appended < MaxEntries
    /\ appended' = appended + 1
    /\ buffer' = BufferAppend(buffer, Entry(appended + 1, now))
    /\ UNCHANGED <<now, snap, logs, isLoading, error, sinceMsRef, intervals,
                   mounted, polls>>
    /\ UNCHANGED <<callVars, srvVars, testVars, uiVars>>

\* The backend answers the get_log_snapshot call of fetchInitialLogs.
SnapshotServe ==
    /\ snap.stage = "req"
    /\ \E ok \in BOOLEAN :
         snap' = IF ok
                 THEN [stage |-> "resp", ok |-> TRUE,
                       logs |-> LogSnapshotResponse(buffer, SnapshotLimit).logs,
                       upTo |-> appended]
                 ELSE [stage |-> "resp", ok |-> FALSE, logs |-> <<>>, upTo |-> appended]
    /\ UNCHANGED <<now, buffer, appended, logs, isLoading, error, sinceMsRef,
                   intervals, mounted, polls>>
    /\ UNCHANGED <<callVars, srvVars, testVars, uiVars>>

\* fetchInitialLogs resumes after `await api.getLogSnapshot(200)`; the state
\* updates re-render the modal and run the polling effect.
SnapshotReceive ==
    /\ snap.stage = "resp"
    /\ snap' = [snap EXCEPT !.stage = "done"]
    /\ sinceMsRef' = IF snap.ok THEN now ELSE sinceMsRef
    /\ IF mounted
       THEN /\ logs' = IF snap.ok THEN snap.logs ELSE logs
            /\ error' = ~snap.ok
            /\ isLoading' = FALSE
            /\ intervals' = EffectRun(intervals, isLoading, error, isLoading', error')
       ELSE UNCHANGED <<logs, error, isLoading, intervals>>
    /\ UNCHANGED <<now, buffer, appended, mounted, polls>>
    /\ UNCHANGED <<callVars, srvVars, testVars, uiVars>>

\* The 1500 ms timer fires: poll() issues get_log_stream_batch(sinceMsRef.current).
PollTick ==
    /\ intervals > 0
    /\ Len(polls) < MaxPolls
    /\ polls' = Append(polls, [stage |-> "req", since |-> sinceMsRef,
                               resp |-> FailedResponse])
    /\ UNCHANGED <<now, buffer, appended, snap, logs, isLoading, error, sinceMsRef,
                   intervals, mounted>>
    /\ UNCHANGED <<callVars, srvVars, testVars, uiVars>>

\* The backend answers one get_log_stream_batch call.
PollServe(i) ==
    /\ polls[i].stage = "req"
    /\ \E ok \in BOOLEAN :
         polls' = [polls EXCEPT ![i] =
                     [stage |-> "resp", since |-> polls[i].since,
                      resp |-> IF ok
                               THEN LogStreamBatchResponse(buffer, polls[i].since, PollLimit)
                               ELSE FailedResponse]]
    /\ UNCHANGED <<now, buffer, appended, snap, logs, isLoading, error, sinceMsRef,
                   intervals, mounted>>
    /\ UNCHANGED <<callVars, srvVars, testVars, uiVars>>

\* poll() resumes after `await api.getLogStreamBatch(...)`.
PollReceive(i) ==
    /\ polls[i].stage = "resp"
    /\ polls' = [polls EXCEPT ![i].stage = "done"]
    /\ IF polls[i].resp.ok
       THEN /\ logs' = IF mounted THEN LogsAfterPoll(logs, polls[i].resp) ELSE logs
            /\ sinceMsRef' = CursorAfterPoll(sinceMsRef, polls[i].resp, now)
            /\ UNCHANGED <<error, intervals>>
       ELSE \* the rejected promise lands in the catch block
            /\ error' = IF mounted THEN ErrorAfterPollFailure(error) ELSE error
            /\ intervals' = EffectRun(intervals, isLoading, error, isLoading, error')
            /\ UNCHANGED <<logs, sinceMsRef>>
    /\ UNCHANGED <<now, buffer, appended, snap, isLoading, mounted>>
    /\ UNCHANGED <<callVars, srvVars, testVars, uiVars>>

\* The modal is closed: the effect's cleanup clears the interval.
Unmount ==
    /\ mounted
    /\ mounted' = FALSE
    /\ intervals' = Cleanup(intervals, isLoading, error)
    /\ UNCHANGED <<now, buffer, appended, snap, logs, isLoading, error, sinceMsRef, polls>>
    /\ UNCHANGED <<callVars, srvVars, testVars, uiVars>>

NextLogs ==
    \/ Tick
    \/ LogAppend
    \/ SnapshotServe
    \/ SnapshotReceive
    \/ PollTick
    \/ \E i \in DOMAIN polls : PollServe(i)
    \/ \E i \in DOMAIN polls : PollReceive(i)
    \/ Unmount

(***************************************************************************)
(* Orchestration Facade and Process Supervisor: start_server, stop_server, *)
(* get_server_status.  Callers are bridge calls running on worker threads. *)
(***************************************************************************)
MaxStarts == 3      \* number of start_server calls that get as far as stopping/spawning

Clients == {1, 2}
NoClient == 0
ServerIds == {"X", "Y"}

\* display name of a server
Remarks(s) == IF s = "X" THEN "remarks X" ELSE "remarks Y"

\* null in process_id: number | null
NoPid == -1
\* null in start_time: string | null (ISO datetimes are modelled by clock values)
NoTime == -1

\* allocated_ports: AllocatedPort[] | null
NoPorts == [null |-> TRUE, list |-> <<>>]
\* the fixed socks/http pair of the main connection (from settings)
MainPorts ==
    [null |-> FALSE,
     list |-> << [port |-> 1, protocol |-> "socks", tag |-> "socks"],
                 [port |-> 2, protocol |-> "http", tag |-> "http"] >>]

NoActive == [server_id |-> NULL]
NoReq == [op |-> NULL]
NoResp == [kind |-> NULL]

\* supervisor states in which the process is (or may still be) alive
Live == {"Starting", "Running", "Stopping"}

Response(kind, op, status, sid, remarks, procId, startTime, ports) ==
    [kind |-> kind, op |-> op, status |-> status, server_id |-> sid,
     remarks |-> remarks, process_id |-> procId, start_time |-> startTime,
     allocated_ports |-> ports]

\* the uniform failure envelope {success: false, message, data?}
FailureEnvelope(op) == Response("failure", op, NULL, NULL, NULL, NoPid, NoTime, NoPorts)

\* start_server success payload {message, server_id, status: "running", remarks}
ServerStartResponse(s) ==
    Response("ok", "start", "running", s, Remarks(s), NoPid, NoTime, NoPorts)

\* stop_server success payload {message, server_id|null, status: "stopped"}
ServerStopResponse(sid) ==
    Response("ok", "stop", "stopped", sid, NULL, NoPid, NoTime, NoPorts)

\* get_server_status with no server: empty ports list instead of null
StoppedStatusEmptyPorts ==
    Response("ok", "status", "stopped", NULL, NULL, NoPid, NoTime,
             [null |-> FALSE, list |-> <<>>])

\* get_server_status when no server is running
StoppedStatus ==
    Response("ok", "status", "stopped", NULL, NULL, NoPid, NoTime, NoPorts)

\* liveness taken from the stored metadata, without polling the process
IsAliveStored(h) == h \in {"Running", "Crashed"}

\* Process Supervisor poll(Handle): the process is alive and serving
IsAlive(h) == h = "Running"

\* get_server_status: stored metadata combined with supervisor liveness;
\* Running is demoted to error when the process died without an explicit
\* stop or could not be stopped
Status(a, hs) ==
    IF a = NoActive THEN StoppedStatus
    ELSE Response("ok", "status",
                  IF IsAlive(hs[a.pid]) /\ ~a.failed THEN "running" ELSE "error",
                  a.server_id, Remarks(a.server_id), a.pid, a.start_time, a.ports)

\* the facade lock taken without looking at its holder
LockFreeAlways(m) == TRUE

\* the single lock guarding the ActiveConnection singleton
LockFree(m) == m = NoClient

\* Process Supervisor stop(Handle): a live process may fail to stop; stopping
\* a process that is already gone is a no-op
StopOutcomes(h) == IF h \in Live THEN {TRUE, FALSE} ELSE {TRUE}

\* supervisor state of a handle after stop(Handle)
HandleAfterStop(h, ok) ==
    IF h \in Live THEN (IF ok THEN "Stopped" ELSE "Stopping") ELSE h

\* the singleton kept as it was after a successful stop
ActiveAfterStopKept(a, ok) == IF ok THEN a ELSE [a EXCEPT !.failed = TRUE]

\* the ActiveConnection singleton after stop: cleared, or left in error
ActiveAfterStop(a, ok) == IF ok THEN NoActive ELSE [a EXCEPT !.failed = TRUE]

\* the previous connection's start_time carried over to the new one
StartTimeCarried(t, old) == IF old # NoTime THEN old ELSE t

\* start_time of a new connection: the time it is started
StartTime(t, old) == t

\* number of start_server calls in progress
StartsInProgress == Cardinality({c \in Clients : pc[c] \in {"start_stop_old", "start_spawn"}})

SrvInit ==
    /\ handles = <<>>
    /\ active = NoActive
    /\ mutex = NoClient
    /\ clock = 1
    /\ pc = [c \in Clients |-> "idle"]
    /\ req = [c \in Clients |-> NoReq]
    /\ resp = [c \in Clients |-> NoResp]

\* start_server(subscription_id, s) is called: the handler takes the lock.
StartBegin(c, s) ==
    /\ pc[c] = "idle"
    /\ LockFree(mutex)
    /\ Len(handles) + StartsInProgress < MaxStarts
    /\ mutex' = c
    /\ req' = [req EXCEPT ![c] =
                 [op |-> "start", server_id |-> s, pid |-> NoPid,
                  old_server |-> active.server_id,
                  old_start |-> IF active = NoActive THEN NoTime ELSE active.start_time]]
    /\ pc' = [pc EXCEPT ![c] = "start_stop_old"]
    /\ UNCHANGED <<handles, active, clock, resp>>
    /\ UNCHANGED <<callVars, logVars, testVars, uiVars>>

\* startServer: an existing active connection is stopped first; a failure to
\* stop it aborts the start and leaves the status as error.
StartStopOld(c) ==
    /\ pc[c] = "start_stop_old"
    /\ IF active = NoActive
       THEN /\ pc' = [pc EXCEPT ![c] = "start_spawn"]
            /\ UNCHANGED <<handles, active, mutex, resp>>
       ELSE IF active.server_id = req[c].server_id /\ Status(active, handles).status = "running"
       THEN \* already running: the same shape with an informative message
            /\ resp' = [resp EXCEPT ![c] = ServerStartResponse(req[c].server_id)]
            /\ pc' = [pc EXCEPT ![c] = "returned"]
            /\ mutex' = NoClient
            /\ UNCHANGED <<handles, active>>
       ELSE \E ok \in StopOutcomes(handles[active.pid]) :
            /\ handles' = [handles EXCEPT ![active.pid] = HandleAfterStop(@, ok)]
            /\ active' = ActiveAfterStop(active, ok)
            /\ IF ok
               THEN /\ pc' = [pc EXCEPT ![c] = "start_spawn"]
                    /\ UNCHANGED <<mutex, resp>>
               ELSE /\ resp' = [resp EXCEPT ![c] = FailureEnvelope("start")]
                    /\ pc' = [pc EXCEPT ![c] = "returned"]
                    /\ mutex' = NoClient
    /\ UNCHANGED <<clock, req>>
    /\ UNCHANGED <<callVars, logVars, testVars, uiVars>>

\* Supervisor start(artifact): the proxy-core binary is spawned, or is missing.
StartSpawn(c) ==
    /\ pc[c] = "start_spawn"
    /\ \E found \in BOOLEAN :
         IF found
         THEN /\ handles' = Append(handles, "Starting")
              /\ req' = [req EXCEPT ![c].pid = Len(handles) + 1]
              /\ pc' = [pc EXCEPT ![c] = "start_wait"]
              /\ UNCHANGED <<mutex, resp>>
         ELSE \* BinaryNotFound: the status remains stopped
              /\ resp' = [resp EXCEPT ![c] = FailureEnvelope("start")]
              /\ pc' = [pc EXCEPT ![c] = "returned"]
              /\ mutex' = NoClient
              /\ UNCHANGED <<handles, req>>
    /\ UNCHANGED <<active, clock>>
    /\ UNCHANGED <<callVars, logVars, testVars, uiVars>>

\* The bounded readiness window ends: the process is ready, or it timed out or
\* exited early and is killed with its ports released.
StartReady(c) ==
    /\ pc[c] = "start_wait"
    /\ \E outcome \in {"ready", "StartupTimeout", "ProcessExitedEarly"} :
         IF outcome = "ready"
         THEN /\ handles' = [handles EXCEPT ![req[c].pid] = "Running"]
              /\ active' = [server_id |-> req[c].server_id, pid |-> req[c].pid,
                            start_time |-> StartTime(clock, req[c].old_start),
                            ports |-> MainPorts, failed |-> FALSE]
              /\ resp' = [resp EXCEPT ![c] = ServerStartResponse(req[c].server_id)]
         ELSE /\ handles' = [handles EXCEPT ![req[c].pid] = "Stopped"]
              /\ resp' = [resp EXCEPT ![c] = FailureEnvelope("start")]
              /\ UNCHANGED active
    /\ clock' = clock + 1
    /\ pc' = [pc EXCEPT ![c] = "returned"]
    /\ mutex' = NoClient
    /\ UNCHANGED req
    /\ UNCHANGED <<callVars, logVars, testVars, uiVars>>

\* stop_server(): under the lock; idempotent and safe with nothing running.
StopServer(c) ==
    /\ pc[c] = "idle"
    /\ LockFree(mutex)
    /\ IF active = NoActive
       THEN /\ resp' = [resp EXCEPT ![c] = ServerStopResponse(NULL)]
            /\ UNCHANGED <<handles, active>>
       ELSE \E ok \in StopOutcomes(handles[active.pid]) :
            /\ handles' = [handles EXCEPT ![active.pid] = HandleAfterStop(@, ok)]
            /\ active' = ActiveAfterStop(active, ok)
            /\ resp' = [resp EXCEPT ![c] =
                          IF ok THEN ServerStopResponse(active.server_id)
                          ELSE FailureEnvelope("stop")]
    /\ req' = [req EXCEPT ![c] = [op |-> "stop"]]
    /\ pc' = [pc EXCEPT ![c] = "returned"]
    /\ UNCHANGED <<mutex, clock>>
    /\ UNCHANGED <<callVars, logVars, testVars, uiVars>>

\* get_server_status(): under the lock; reads, changes nothing.
GetServerStatus(c) ==
    /\ pc[c] = "idle"
    /\ LockFree(mutex)
    /\ resp' = [resp EXCEPT ![c] = Status(active, handles)]
    /\ req' = [req EXCEPT ![c] = [op |-> "status"]]
    /\ pc' = [pc EXCEPT ![c] = "returned"]
    /\ UNCHANGED <<handles, active, mutex, clock>>
    /\ UNCHANGED <<callVars, logVars, testVars, uiVars>>

\* The caller's promise settles and the caller is free to call again.
Return(c) ==
    /\ pc[c] = "returned"
    /\ pc' = [pc EXCEPT ![c] = "idle"]
    /\ req' = [req EXCEPT ![c] = NoReq]
    /\ resp' = [resp EXCEPT ![c] = NoResp]
    /\ UNCHANGED <<handles, active, mutex, clock>>
    /\ UNCHANGED <<callVars, logVars, testVars, uiVars>>

\* The running proxy-core process exits without an explicit stop.
Crash ==
    /\ \E i \in DOMAIN handles :
         /\ handles[i] = "Running"
         /\ handles' = [handles EXCEPT ![i] = "Crashed"]
    /\ UNCHANGED <<active, mutex, clock, pc, req, resp>>
    /\ UNCHANGED <<callVars, logVars, testVars, uiVars>>

NextServer ==
    \/ \E c \in Clients, s \in ServerIds : StartBegin(c, s)
    \/ \E c \in Clients : StartStopOld(c)
    \/ \E c \in Clients : StartSpawn(c)
    \/ \E c \in Clients : StartReady(c)
    \/ \E c \in Clients : StopServer(c)
    \/ \E c \in Clients : GetServerStatus(c)
    \/ \E c \in Clients : Return(c)
    \/ Crash

(***************************************************************************)
(* Connectivity Tester: test_subscription_servers.  One probe per input    *)
(* server, run by a bounded-concurrency fan-out; each probe holds two      *)
(* ephemeral ports while it runs.                                          *)
(***************************************************************************)
MaxServers == 2     \* servers in the tested subscription
ProbeCap == 2       \* parallelism cap of the fan-out

TestServerIds == 1..MaxServers

\* the ephemeral pool handed out to probes: disjoint from the main pair
EphemeralPorts == 3..6

\* no port (a probe that never got its ports)
NoPort == 0

NoBatch == [running |-> FALSE, servers |-> <<>>]
NoTestResp == [kind |-> NULL]
NoResult == [server_id |-> 0]

\* the server lists a subscription can hold: distinct servers in any order
ServerLists ==
    UNION { { q \in [1..n -> TestServerIds] : \A i, j \in 1..n : i # j => q[i] # q[j] }
            : n \in 0..MaxServers }

ProbeOutcomes == {"ok", "timeout", "connection refused"}

\* TestResult {server_id, remarks, success, ping_ms|null, error|null, socks_port, http_port}
TestResult(sid, outcome, socks, http) ==
    [server_id |-> sid, remarks |-> sid, success |-> (outcome = "ok"),
     ping_ms |-> IF outcome = "ok" THEN 1 ELSE NoMs,
     error |-> IF outcome = "ok" THEN NULL ELSE outcome,
     socks_port |-> socks, http_port |-> http]

\* ports held by the probes that are running
HeldPorts == UNION { {probes[i].socks, probes[i].http} :
                        i \in {k \in DOMAIN probes : probes[k].state = "running"} }

RunningProbes == {i \in DOMAIN probes : probes[i].state = "running"}

\* ports bound by the main connection: its fixed pair, for as long as its
\* proxy-core process is (or may still be) alive
MainHeldPorts ==
    IF \E i \in DOMAIN handles : handles[i] \in Live
    THEN {MainPorts.list[k].port : k \in DOMAIN MainPorts.list}
    ELSE {}

\* every port of the ephemeral pool, bound or not
FreePortsUnchecked == EphemeralPorts

\* Port Allocator acquire(count, test pool): the currently-unbound ports of
\* the ephemeral pool
FreePorts == EphemeralPorts \ (MainHeldPorts \cup HeldPorts)

\* the result stored in the first position still empty (completion order)
RecordResultInCompletionOrder(rs, i, r) ==
    LET k == CHOOSE m \in DOMAIN rs :
                 rs[m] = NoResult /\ \A l \in DOMAIN rs : l < m => rs[l] # NoResult
    IN  [rs EXCEPT ![k] = r]

\* the result of the probe for input position i is stored at position i
RecordResult(rs, i, r) == [rs EXCEPT ![i] = r]

\* aggregate counts are derived from the per-result booleans
SuccessfulTests(rs) == Cardinality({i \in DOMAIN rs : rs[i].success})
FailedTests(rs) == Cardinality({i \in DOMAIN rs : ~rs[i].success})

\* test_subscription_servers success payload
SubscriptionUrlTestResponse(servers, rs) ==
    [kind |-> "ok", total_servers |-> Len(servers),
     successful_tests |-> SuccessfulTests(rs), failed_tests |-> FailedTests(rs),
     results |-> rs]

TestInit ==
    /\ testBatch = NoBatch
    /\ probes = <<>>
    /\ results = <<>>
    /\ testResp = NoTestResp

\* test_subscription_servers(id) is called for a subscription holding `servers`.
TestBegin(servers) ==
    /\ ~testBatch.running
    /\ testResp = NoTestResp
    /\ testBatch' = [running |-> TRUE, servers |-> servers]
    /\ probes' = [i \in DOMAIN servers |-> [state |-> "pending", socks |-> NoPort, http |-> NoPort]]
    /\ results' = [i \in DOMAIN servers |-> NoResult]
    /\ UNCHANGED testResp
    /\ UNCHANGED <<callVars, logVars, srvVars, uiVars>>

\* A worker takes the probe of position i: it acquires two ephemeral ports,
\* builds the artifact and starts the probe process; when no port can be
\* bound the probe is marked failed.
ProbeStart(i) ==
    /\ testBatch.running
    /\ probes[i].state = "pending"
    /\ Cardinality(RunningProbes) < ProbeCap
    /\ \/ \E sp, hp \in FreePorts :
            /\ sp < hp
            /\ probes' = [probes EXCEPT ![i] = [state |-> "running", socks |-> sp, http |-> hp]]
            /\ UNCHANGED results
       \/ /\ probes' = [probes EXCEPT ![i].state = "done"]
          /\ results' = RecordResult(results, i,
                            TestResult(testBatch.servers[i], "PortUnavailable", NoPort, NoPort))
    /\ UNCHANGED <<testBatch, testResp>>
    /\ UNCHANGED <<callVars, logVars, srvVars, uiVars>>

\* The timed reachability check of probe i ends; the probe process is stopped
\* and its ports are released whatever the outcome.
ProbeFinish(i) ==
    /\ testBatch.running
    /\ probes[i].state = "running"
    /\ \E outcome \in ProbeOutcomes :
         results' = RecordResult(results, i,
                        TestResult(testBatch.servers[i], outcome, probes[i].socks, probes[i].http))
    /\ probes' = [probes EXCEPT ![i] = [state |-> "done", socks |-> NoPort, http |-> NoPort]]
    /\ UNCHANGED <<testBatch, testResp>>
    /\ UNCHANGED <<callVars, logVars, srvVars, uiVars>>

\* Every probe is done: the response is built from the results.
TestRespond ==
    /\ testBatch.running
    /\ \A i \in DOMAIN probes : probes[i].state = "done"
    /\ testResp' = SubscriptionUrlTestResponse(testBatch.servers, results)
    /\ testBatch' = [testBatch EXCEPT !.running = FALSE]
    /\ UNCHANGED <<probes, results>>
    /\ UNCHANGED <<callVars, logVars, srvVars, uiVars>>

\* The caller has received the response.
TestReturn ==
    /\ testResp # NoTestResp
    /\ testResp' = NoTestResp
    /\ testBatch' = NoBatch
    /\ probes' = <<>>
    /\ results' = <<>>
    /\ UNCHANGED <<callVars, logVars, srvVars, uiVars>>

NextTest ==
    \/ \E servers \in ServerLists : TestBegin(servers)
    \/ \E i \in DOMAIN probes : ProbeStart(i)
    \/ \E i \in DOMAIN probes : ProbeFinish(i)
    \/ TestRespond
    \/ TestReturn

(***************************************************************************)
(* The webview: its clock and the injection of window.pywebview.api.       *)
(* Time is sampled every TimeStep ms; timers fire at any sampled instant.  *)
(***************************************************************************)
MaxSteps == 10      \* time steps explored
MaxPromises == 2    \* promises ensureApiReady creates
NumCallers == 2     \* concurrent callers of callApp

\* ensureApiReady(timeout = 10000)
DefaultTimeout == 10000

TimeStep == DefaultTimeout \div 4
MaxWallMs == MaxSteps * TimeStep

\* `(window as any).pywebview?.api` is truthy
BridgeAvailable == bridgeAt # NoTime

EnvInit ==
    /\ wallMs = 0
    /\ bridgeAt = NoTime

\* Time passes.
Advance ==
    /\ wallMs + TimeStep <= MaxWallMs
    /\ wallMs' = wallMs + TimeStep
    /\ UNCHANGED <<bridgeAt, readyVars, bootVars, themeVars, backVars>>

\* pywebview injects window.pywebview.api into the page.
BridgeInject ==
    /\ ~BridgeAvailable
    /\ bridgeAt' = wallMs
    /\ UNCHANGED <<wallMs, readyVars, bootVars, themeVars, backVars>>

(***************************************************************************)
(* ensureApiReady and the callApp invocations awaiting it.                 *)
(***************************************************************************)
NoPromise == 0
Callers == 1..NumCallers
NoCaller == [pc |-> "idle", promise |-> NoPromise, outcome |-> NULL]

\* the cache test with the cache ignored: every call starts its own wait
CachedNever(cache) == FALSE

\* `if (apiReadyPromise) return apiReadyPromise`
Cached(cache) == cache # NoPromise

\* `Date.now() - startTime > timeout`
TimedOut(t, start, timeout) == t - start > timeout

\* the executor of `new Promise(...)`: resolved at once when the bridge is
\* there, otherwise pending with a 100 ms polling interval
NewPromise(available, t) ==
    IF available
    THEN [state |-> "resolved", startTime |-> NoTime, interval |-> FALSE]
    ELSE [state |-> "pending", startTime |-> t, interval |-> TRUE]

\* the rejected promise left in the cache
CacheAfterRejectKept(cache) == cache

\* the timeout branch: `apiReadyPromise = null`
CacheAfterReject(cache) == NoPromise

\* a wait started at time t can run to its timeout within the explored time
CanTimeOut(t) == t + DefaultTimeout + TimeStep <= MaxWallMs

ReadyInit ==
    /\ apiReadyPromise = NoPromise
    /\ promises = <<>>
    /\ calls = [k \in Callers |-> NoCaller]

\* callApp(method, ...): `const api = await ensureApiReady()`.
CallAppBegin(k) ==
    /\ calls[k].pc = "idle"
    /\ IF Cached(apiReadyPromise)
       THEN /\ calls' = [calls EXCEPT ![k] = [pc |-> "await", promise |-> apiReadyPromise,
                                              outcome |-> NULL]]
            /\ UNCHANGED <<apiReadyPromise, promises>>
       ELSE /\ Len(promises) < MaxPromises
            /\ BridgeAvailable \/ CanTimeOut(wallMs)
            /\ promises' = Append(promises, NewPromise(BridgeAvailable, wallMs))
            /\ apiReadyPromise' = Len(promises) + 1
            /\ calls' = [calls EXCEPT ![k] = [pc |-> "await", promise |-> Len(promises) + 1,
                                              outcome |-> NULL]]
    /\ UNCHANGED <<envVars, bootVars, themeVars, backVars>>

\* The polling interval of promise p fires.
IntervalFire(p) ==
    /\ p \in DOMAIN promises
    /\ promises[p].interval
    /\ IF BridgeAvailable
       THEN /\ promises' = [promises EXCEPT ![p].state = "resolved", ![p].interval = FALSE]
            /\ UNCHANGED apiReadyPromise
       ELSE IF TimedOut(wallMs, promises[p].startTime, DefaultTimeout)
       THEN /\ promises' = [promises EXCEPT ![p].state = "rejected", ![p].interval = FALSE]
            /\ apiReadyPromise' = CacheAfterReject(apiReadyPromise)
       ELSE UNCHANGED <<promises, apiReadyPromise>>
    /\ UNCHANGED calls
    /\ UNCHANGED <<envVars, bootVars, themeVars, backVars>>

\* callApp resumes after the await: with the api, or with the rejection.
CallAppResume(k) ==
    /\ calls[k].pc = "await"
    /\ promises[calls[k].promise].state # "pending"
    /\ calls' = [calls EXCEPT ![k].pc = "settled",
                              ![k].outcome = promises[calls[k].promise].state]
    /\ UNCHANGED <<apiReadyPromise, promises>>
    /\ UNCHANGED <<envVars, bootVars, themeVars, backVars>>

\* The caller has its outcome and is free to call again.
CallAppReturn(k) ==
    /\ calls[k].pc = "settled"
    /\ calls' = [calls EXCEPT ![k] = NoCaller]
    /\ UNCHANGED <<apiReadyPromise, promises>>
    /\ UNCHANGED <<envVars, bootVars, themeVars, backVars>>

NextReady ==
    \/ Advance
    \/ BridgeInject
    \/ \E k \in Callers : CallAppBegin(k)
    \/ \E p \in 1..MaxPromises : IntervalFire(p)
    \/ \E k \in Callers : CallAppResume(k)
    \/ \E k \in Callers : CallAppReturn(k)

(***************************************************************************)
(* Application start (index.tsx): waitForApi polls for the bridge and      *)
(* renders the application or an error page.                               *)
(***************************************************************************)
MAX_WAIT_TIME == 5000

\* the wait given up as soon as MAX_WAIT_TIME is reached
BootTimedOutAtLimit(t, start) == t - start >= MAX_WAIT_TIME

\* `Date.now() - startTime > MAX_WAIT_TIME`
BootTimedOut(t, start) == t - start > MAX_WAIT_TIME

\* The script has been evaluated up to its last statement, `waitForApi()`.
BootInit ==
    /\ bootStartTime = 0
    /\ pendingChecks = 1
    /\ renderAppCalls = 0
    /\ renderErrorCalls = 0

\* waitForApi runs: called at the end of the script, or by its timer.
WaitForApi ==
    /\ pendingChecks > 0
    /\ IF BridgeAvailable
       THEN /\ renderAppCalls' = renderAppCalls + 1
            /\ pendingChecks' = pendingChecks - 1
            /\ UNCHANGED renderErrorCalls
       ELSE IF BootTimedOut(wallMs, bootStartTime)
       THEN /\ renderErrorCalls' = renderErrorCalls + 1
            /\ pendingChecks' = pendingChecks - 1
            /\ UNCHANGED renderAppCalls
       ELSE \* setTimeout(waitForApi, POLL_INTERVAL): one check is scheduled again
            /\ pendingChecks' = (pendingChecks - 1) + 1
            /\ UNCHANGED <<renderAppCalls, renderErrorCalls>>
    /\ UNCHANGED bootStartTime
    /\ UNCHANGED <<envVars, readyVars, themeVars, backVars>>

NextBoot ==
    \/ Advance
    \/ BridgeInject
    \/ WaitForApi

(***************************************************************************)
(* ThemeProvider: theme and font state, their initialisation from          *)
(* get_appearance, the backend's live pushes through window.frontendApi    *)
(* and the UI's setTheme / setFont persisting through update_appearance.   *)
(***************************************************************************)
MaxUpdates == 1     \* update_appearance calls issued

\* the names in `themes`; 'slate' is the initial state
ThemeNames == {"slate", "rose"}
\* theme names as they arrive: known ones and one that is not in `themes`
ThemeInputs == ThemeNames \cup {"bogus"}

\* font names as they arrive, as sequences of characters
FontInputs == { <<>>, <<"a">>, <<" ", "a", " ">>, <<"a", " ", "a">>, <<" ">> }

\* what String.prototype.trim() strips
Whitespace == {" "}

RECURSIVE TrimStart(_)
TrimStart(s) ==
    IF s = <<>> THEN s
    ELSE IF Head(s) \in Whitespace THEN TrimStart(Tail(s)) ELSE s

RECURSIVE TrimEnd(_)
TrimEnd(s) ==
    IF s = <<>> THEN s
    ELSE IF s[Len(s)] \in Whitespace THEN TrimEnd(SubSeq(s, 1, Len(s) - 1)) ELSE s

\* leading whitespace stripped only
TrimLeading(s) == TrimStart(s)

\* `newFont.trim()`
Trim(s) == TrimEnd(TrimStart(s))

\* `font: string | null`
NullFont == [null |-> TRUE, value |-> <<>>]
FontOf(s) == [null |-> FALSE, value |-> s]

\* the backend has not read its persisted appearance yet
NotLoaded == [loaded |-> FALSE, theme |-> NULL, font |-> NullFont]

\* the appearance a backend can have persisted in an earlier run
StoredInputs ==
    { [loaded |-> TRUE, theme |-> NULL, font |-> NullFont],
      [loaded |-> TRUE, theme |-> "rose", font |-> FontOf(<<"a">>)],
      [loaded |-> TRUE, theme |-> "bogus", font |-> FontOf(<<"a", " ", "a">>)] }

\* `themes.some(t => t.name === name)`
IsTheme(name) == name \in ThemeNames

\* initializeAppearance: `if (appearance?.theme && themes.some(...)) setThemeState(appearance.theme)`
ThemeAfterFetch(cur, appearance) ==
    IF appearance.theme # NULL /\ IsTheme(appearance.theme) THEN appearance.theme ELSE cur

\* initializeAppearance: `if (appearance?.hasOwnProperty('font')) setFontState(appearance.font ?? '')`
FontAfterFetch(cur, appearance) ==
    IF appearance.font.null THEN <<>> ELSE appearance.font.value

\* window.frontendApi installed before the initial fetch is started
FrontendApiOnMountInstalled == TRUE

\* window.frontendApi when the mount effect starts initializeAppearance
FrontendApiOnMount == FALSE

\* AppearanceUpdate {theme?, font?}
ThemeUpdate(name) == [kind |-> "theme", theme |-> name, font |-> <<>>]
FontUpdate(s) == [kind |-> "font", theme |-> NULL, font |-> s]

\* update_appearance(payload): the persisted appearance after a success
StoredAfterUpdate(st, payload) ==
    IF payload.kind = "theme"
    THEN [st EXCEPT !.theme = payload.theme]
    ELSE [st EXCEPT !.font = FontOf(payload.font)]

ThemeInit ==
    /\ theme = "slate"
    /\ font = <<>>
    /\ frontendApi = FrontendApiOnMount
    /\ appearanceCall = [stage |-> "req", ok |-> FALSE,
                         value |-> [theme |-> NULL, font |-> NullFont]]
    /\ stored = NotLoaded
    /\ updateCalls = <<>>

\* The backend starts and reads the appearance it persisted.
StoredLoad ==
    /\ ~stored.loaded
    /\ stored' \in StoredInputs
    /\ UNCHANGED <<theme, font, frontendApi, appearanceCall, updateCalls>>
    /\ UNCHANGED <<envVars, readyVars, bootVars, backVars>>

\* The backend answers the get_appearance call of initializeAppearance.
AppearanceServe ==
    /\ appearanceCall.stage = "req"
    /\ stored.loaded
    /\ \E ok \in BOOLEAN :
         appearanceCall' = [stage |-> "resp", ok |-> ok,
                            value |-> IF ok THEN [theme |-> stored.theme, font |-> stored.font]
                                      ELSE [theme |-> NULL, font |-> NullFont]]
    /\ UNCHANGED <<theme, font, frontendApi, stored, updateCalls>>
    /\ UNCHANGED <<envVars, readyVars, bootVars, backVars>>

\* initializeAppearance resumes after `await api.getAppearance()`: the result
\* is applied, or the failure is logged; then window.frontendApi is installed.
AppearanceReceive ==
    /\ appearanceCall.stage = "resp"
    /\ appearanceCall' = [appearanceCall EXCEPT !.stage = "done"]
    /\ theme' = IF appearanceCall.ok THEN ThemeAfterFetch(theme, appearanceCall.value) ELSE theme
    /\ font' = IF appearanceCall.ok THEN FontAfterFetch(font, appearanceCall.value) ELSE font
    /\ frontendApi' = TRUE
    /\ UNCHANGED <<stored, updateCalls>>
    /\ UNCHANGED <<envVars, readyVars, bootVars, backVars>>

\* The backend pushes a theme: window.frontendApi.setTheme(name).
PushTheme(name) ==
    /\ frontendApi
    /\ theme' = IF IsTheme(name) THEN name ELSE theme
    /\ UNCHANGED <<font, frontendApi, appearanceCall, stored, updateCalls>>
    /\ UNCHANGED <<envVars, readyVars, bootVars, backVars>>

\* The backend pushes a font: window.frontendApi.setFont(name).
PushFont(name) ==
    /\ frontendApi
    /\ font' = name
    /\ UNCHANGED <<theme, frontendApi, appearanceCall, stored, updateCalls>>
    /\ UNCHANGED <<envVars, readyVars, bootVars, backVars>>

\* The UI calls setTheme(name): optimistic update, then update_appearance.
SetTheme(name) ==
    /\ Len(updateCalls) < MaxUpdates
    /\ IF IsTheme(name)
       THEN /\ theme' = name
            /\ updateCalls' = Append(updateCalls,
                                [stage |-> "req", ok |-> FALSE, fontArg |-> <<>>,
                                 payload |-> ThemeUpdate(name)])
       ELSE UNCHANGED <<theme, updateCalls>>
    /\ UNCHANGED <<font, frontendApi, appearanceCall, stored>>
    /\ UNCHANGED <<envVars, readyVars, bootVars, backVars>>

\* The UI calls setFont(name): the trimmed name is stored and persisted.
SetFont(name) ==
    /\ Len(updateCalls) < MaxUpdates
    /\ font' = Trim(name)
    /\ updateCalls' = Append(updateCalls,
                        [stage |-> "req", ok |-> FALSE, fontArg |-> name,
                         payload |-> FontUpdate(Trim(name))])
    /\ UNCHANGED <<theme, frontendApi, appearanceCall, stored>>
    /\ UNCHANGED <<envVars, readyVars, bootVars, backVars>>

\* The backend answers one update_appearance call: it persists the payload,
\* or rejects it (validation) and callApp turns the envelope into an error.
UpdateServe(i) ==
    /\ updateCalls[i].stage = "req"
    /\ stored.loaded
    /\ \E ok \in BOOLEAN :
         /\ updateCalls' = [updateCalls EXCEPT ![i].stage = "resp", ![i].ok = ok]
         /\ stored' = IF ok THEN StoredAfterUpdate(stored, updateCalls[i].payload) ELSE stored
    /\ UNCHANGED <<theme, font, frontendApi, appearanceCall>>
    /\ UNCHANGED <<envVars, readyVars, bootVars, backVars>>

\* The promise of one update_appearance call settles: a rejection is caught
\* and logged by `.catch(e => console.error(...))`.
UpdateSettle(i) ==
    /\ updateCalls[i].stage = "resp"
    /\ updateCalls' = [updateCalls EXCEPT ![i].stage = "done"]
    /\ UNCHANGED <<theme, font, frontendApi, appearanceCall, stored>>
    /\ UNCHANGED <<envVars, readyVars, bootVars, backVars>>

NextTheme ==
    \/ StoredLoad
    \/ AppearanceServe
    \/ AppearanceReceive
    \/ \E name \in ThemeInputs : PushTheme(name)
    \/ \E name \in FontInputs : PushFont(name)
    \/ \E name \in ThemeInputs : SetTheme(name)
    \/ \E name \in FontInputs : SetFont(name)
    \/ \E i \in DOMAIN updateCalls : UpdateServe(i)
    \/ \E i \in DOMAIN updateCalls : UpdateSettle(i)

vars == <<backVars, uiVars>>

Init ==
    /\ CallInit /\ LogInit /\ SrvInit /\ TestInit
    /\ EnvInit /\ ReadyInit /\ BootInit /\ ThemeInit

Next ==
    \/ NextCall \/ NextLogs \/ NextServer \/ NextTest
    \/ NextReady \/ NextBoot \/ NextTheme

Spec == Init /\ [][Next]_vars

SpecCall == Init /\ [][NextCall]_vars

SpecLogs == Init /\ [][NextLogs]_vars

SpecServer == Init /\ [][NextServer]_vars

SpecTest == Init /\ [][NextTest]_vars

\* a server list in ascending order of its ids
Ascending(servers) == \A i, j \in DOMAIN servers : i < j => servers[i] < servers[j]

\* One lifetime of the main connection (started at most once, by one client)
\* interleaved with test batches: the two users of the Port Allocator.  Ports
\* are handed out regardless of which server a probe is for, so the batches
\* are taken in one order of their servers.
NextPorts ==
    \/ handles = <<>> /\ StartBegin(1, "X")
    \/ StartStopOld(1)
    \/ StartSpawn(1)
    \/ StartReady(1)
    \/ StopServer(1)
    \/ Return(1)
    \/ Crash
    \/ \E servers \in ServerLists : Ascending(servers) /\ TestBegin(servers)
    \/ \E i \in DOMAIN probes : ProbeStart(i)
    \/ \E i \in DOMAIN probes : ProbeFinish(i)
    \/ TestRespond
    \/ TestReturn

SpecPorts == Init /\ [][NextPorts]_vars

SpecReady == Init /\ [][NextReady]_vars

\* Time passes, interval callbacks are run by the event loop and the
\* continuation of a settled await is run as a microtask.
SpecReadyFair ==
    /\ Init /\ [][NextReady]_vars
    /\ WF_vars(Advance)
    /\ \A p \in 1..MaxPromises : WF_vars(IntervalFire(p))
    /\ \A k \in Callers : WF_vars(CallAppResume(k))

\* Time passes and the calls of waitForApi that are due are run.
SpecBoot ==
    /\ Init /\ [][NextBoot]_vars
    /\ WF_vars(Advance)
    /\ WF_vars(WaitForApi)

SpecTheme == Init /\ [][NextTheme]_vars

(***************************************************************************)
(* Properties of callApp.                                                  *)
(***************************************************************************)

\* C2: whenever the bridge method returns, callApp rejects exactly when the
\* returned value is an object whose `success` is the boolean false; in every
\* other case it resolves with the returned value itself.
C2_EnvelopeRejectedPayloadResolved ==
    (callIn # NoCall /\ callIn.hasMethod /\ ~callIn.throws) =>
        IF callIn.ret.t = "object" /\ callIn.ret.success = "false"
        THEN callOut.kind = "rejected"
        ELSE callOut.kind = "resolved" /\ callOut.value = callIn.ret

\* a failure envelope was returned by the bridge and the promise rejected
C2_Witness ==
    /\ callIn # NoCall
    /\ callIn.hasMethod /\ ~callIn.throws
    /\ callIn.ret.t = "object" /\ callIn.ret.success = "false"
    /\ callOut.kind = "rejected"

(***************************************************************************)
(* Properties of the log stream.                                           *)
(***************************************************************************)

Displayed(e) == \E j \in DOMAIN logs : logs[j].id = e.id

\* C3: once the initial load has completed, an entry appended after the
\* snapshot was taken and not yet displayed is still ahead of the cursor, so
\* a later poll returns it.
C3_NoEntryPassedOver ==
    (mounted /\ snap.stage = "done" /\ snap.ok) =>
        \A k \in DOMAIN buffer :
            (buffer[k].id > snap.upTo /\ ~Displayed(buffer[k]))
                => (sinceMsRef = NoMs \/ buffer[k].timestamp > sinceMsRef)

\* C4: no log entry appears twice in the displayed list.
C4_NoDuplicateEntry ==
    \A i, j \in DOMAIN logs : i # j => logs[i].id # logs[j].id

\* C5: a poll served when the buffer holds no entry after its since_ms gets
\* logs = [] and next_since_ms = null, and receiving such a response changes
\* neither the cursor nor the displayed list.
C5_EmptyPollNoAdvance ==
    [][\A i \in DOMAIN polls :
        /\ ( /\ polls[i].stage = "req"
             /\ polls'[i].stage = "resp"
             /\ polls'[i].resp.ok
             /\ polls[i].since # NoMs
             /\ \A k \in DOMAIN buffer : buffer[k].timestamp <= polls[i].since )
           => ( /\ polls'[i].resp.logs = <<>>
                /\ polls'[i].resp.next_since_ms = NoMs )
        /\ ( /\ polls[i].stage = "resp"
             /\ polls'[i].stage = "done"
             /\ polls[i].resp.ok
             /\ polls[i].resp.logs = <<>> )
           => ( /\ sinceMsRef' = sinceMsRef
                /\ logs' = logs )
      ]_vars

\* an empty batch has been received after the clock moved past the cursor
C5_Witness ==
    \E i \in DOMAIN polls :
        /\ polls[i].stage = "done"
        /\ polls[i].resp.ok
        /\ polls[i].resp.logs = <<>>
        /\ polls[i].resp.next_since_ms = NoMs
        /\ sinceMsRef = polls[i].since
        /\ now > sinceMsRef

(***************************************************************************)
(* Properties of server control.                                           *)
(***************************************************************************)

RunningHandles == {i \in DOMAIN handles : handles[i] = "Running"}

\* C1: at most one main proxy-core process handle is in the Running state,
\* whatever the interleaving of start_server and stop_server calls.
C1_AtMostOneRunning == Cardinality(RunningHandles) <= 1

\* a second process runs while another caller's start_server holds the lock
C1_Witness ==
    /\ \E i \in RunningHandles : i >= 2
    /\ \E c \in Clients : pc[c] = "start_stop_old"

\* caller c's stop_server call is handled in this step
StopStep(c) == pc[c] = "idle" /\ pc'[c] = "returned" /\ req'[c].op = "stop"

C7_StopOldThenStartNew ==
    [][ /\ Len(handles') > Len(handles) =>
             \A i \in DOMAIN handles : handles[i] \notin Live
        /\ \A c \in Clients :
             ( /\ pc[c] = "start_wait"
               /\ pc'[c] = "returned"
               /\ resp'[c].kind = "ok"
               /\ req[c].old_server \notin {NULL, req[c].server_id} )
             => ( /\ Status(active', handles').server_id = req[c].server_id
                  /\ Status(active', handles').status = "running"
                  /\ Status(active', handles').start_time > req[c].old_start )
      ]_vars

\* X was started while Y was active and is now the running server
C7_Witness ==
    \E c \in Clients :
        /\ pc[c] = "returned"
        /\ req[c].op = "start"
        /\ resp[c].kind = "ok"
        /\ req[c].old_server \notin {NULL, req[c].server_id}
        /\ active # NoActive
        /\ active.server_id = req[c].server_id
        /\ handles[active.pid] = "Running"
        /\ \E i \in DOMAIN handles : i < active.pid /\ handles[i] = "Stopped"

\* the main process exited without an explicit stop and no start/stop followed
CrashedUnattended == active # NoActive /\ handles[active.pid] = "Crashed"

\* caller c's get_server_status call is handled in this step
StatusStep(c) == pc[c] = "idle" /\ pc'[c] = "returned" /\ req'[c].op = "status"

\* C8: every get_server_status answered after the main process crashed, and
\* before the next start_server or stop_server, reports 'error'.
C8_CrashReportedAsError ==
    [][\A c \in Clients : (StatusStep(c) /\ CrashedUnattended) =>
          (resp'[c].kind = "ok" /\ resp'[c].status = "error")]_vars

\* a status query has been answered 'error' for a crashed process
C8_Witness ==
    \E c \in Clients :
        /\ resp[c] # NoResp
        /\ resp[c].op = "status"
        /\ resp[c].status = "error"
        /\ CrashedUnattended

\* C9: a get_server_status response given with no active connection is
\* 'stopped' with server_id, remarks, process_id, start_time and
\* allocated_ports null; a 'running' response has server_id, remarks and the
\* allocated_ports list.
C9_StatusShape ==
    [][\A c \in Clients : StatusStep(c) =>
        /\ active = NoActive =>
             ( /\ resp'[c].status = "stopped"
               /\ resp'[c].server_id = NULL
               /\ resp'[c].remarks = NULL
               /\ resp'[c].process_id = NoPid
               /\ resp'[c].start_time = NoTime
               /\ resp'[c].allocated_ports.null )
        /\ resp'[c].status = "running" =>
             ( /\ resp'[c].server_id \in ServerIds
               /\ resp'[c].remarks # NULL
               /\ ~resp'[c].allocated_ports.null
               /\ Len(resp'[c].allocated_ports.list) > 0 )
      ]_vars

\* a status query answered 'stopped' after a server had been started and stopped
C9_Witness ==
    \E c \in Clients :
        /\ resp[c] # NoResp
        /\ resp[c].op = "status"
        /\ resp[c].status = "stopped"
        /\ resp[c].server_id = NULL
        /\ \E i \in DOMAIN handles : handles[i] \in {"Stopped", "Crashed"}

(***************************************************************************)
(* Properties of the connectivity tests.                                   *)
(***************************************************************************)

\* C10: the response of a test batch has one result per input server, in
\* input order; total_servers is the input count, successful_tests counts the
\* results with success true, and successful_tests + failed_tests is
\* total_servers, whichever probes failed or timed out.
C10_OneResultPerServerInOrder ==
    testResp # NoTestResp =>
        /\ DOMAIN testResp.results = DOMAIN testBatch.servers
        /\ \A i \in DOMAIN testBatch.servers :
             testResp.results[i].server_id = testBatch.servers[i]
        /\ testResp.total_servers = Len(testBatch.servers)
        /\ testResp.successful_tests =
             Cardinality({i \in DOMAIN testResp.results : testResp.results[i].success})
        /\ testResp.successful_tests + testResp.failed_tests = testResp.total_servers

\* a batch of several servers, not in id order, some probes failed, some not
C10_Witness ==
    /\ testResp # NoTestResp
    /\ Len(testBatch.servers) >= 2
    /\ testBatch.servers[1] > testBatch.servers[2]
    /\ \E i \in DOMAIN testResp.results : ~testResp.results[i].success
    /\ \E i \in DOMAIN testResp.results : testResp.results[i].success
    /\ testResp.results[1].error = "timeout"

(***************************************************************************)
(* Properties of the Port Allocator.                                       *)
(***************************************************************************)

\* the live allocations holding port p: the main connection's listeners and
\* the listeners of the probes that are running
PortHolders(p) ==
    {<<"main", i, k>> : i \in {j \in DOMAIN handles : handles[j] \in Live},
                        k \in {l \in DOMAIN MainPorts.list : MainPorts.list[l].port = p}}
    \cup {<<"probe", i, "socks">> : i \in {j \in RunningProbes : probes[j].socks = p}}
    \cup {<<"probe", i, "http">> : i \in {j \in RunningProbes : probes[j].http = p}}

C12_CursorNeverDecreases ==
    [][sinceMsRef # NoMs => sinceMsRef' >= sinceMsRef]_vars

\* C13: no get_log_stream_batch call is issued, and no polling interval
\* exists, until the initial get_log_snapshot call has completed successfully;
\* after a failed snapshot call polling never starts.
C13_NoPollBeforeSnapshot ==
    (intervals > 0 \/ polls # <<>>) => (snap.stage = "done" /\ snap.ok)

\* a get_log_stream_batch call has been issued
C13_Witness == polls # <<>> /\ snap.ok /\ ~error

\* C14: handling a failed get_log_stream_batch poll leaves the displayed logs
\* and the cursor unchanged and does not stop polling; a timer tick issues its
\* call with the cursor as it stands, so the tick after a failure polls with
\* the same since_ms.
C14_FailedPollChangesNothing ==
    [][/\ \A i \in DOMAIN polls :
            (polls[i].stage = "resp" /\ ~polls[i].resp.ok /\ polls'[i].stage = "done")
                => /\ logs' = logs
                   /\ sinceMsRef' = sinceMsRef
                   /\ error' = error
                   /\ intervals' = intervals
       /\ Len(polls') > Len(polls) => polls'[Len(polls')].since = sinceMsRef]_vars

\* a poll has failed while the modal is open; the interval is still active
C14_Witness ==
    /\ mounted
    /\ intervals > 0
    /\ \E i \in DOMAIN polls : polls[i].stage = "done" /\ ~polls[i].resp.ok

\* C15: a modal has at most one active polling interval at any time; after it
\* unmounts the interval is cleared and no new get_log_stream_batch call is
\* started.
C15_OneIntervalClearedOnUnmount ==
    [][/\ intervals' <= 1
       /\ ~mounted' => intervals' = 0
       /\ ~mounted => Len(polls') = Len(polls)]_vars

\* a modal that polled and was closed, a call still in flight
C15_Witness ==
    /\ ~mounted
    /\ intervals = 0
    /\ \E i \in DOMAIN polls : polls[i].stage # "done"

(***************************************************************************)
(* Properties of ensureApiReady.                                           *)
(***************************************************************************)

\* the promises whose polling interval is active
ActiveIntervals == {p \in DOMAIN promises : promises[p].interval}

\* the callers waiting on a promise that is still pending
Waiting == {k \in Callers : calls[k].pc = "await" /\ promises[calls[k].promise].state = "pending"}

\* the cache holds a promise that has resolved
CacheResolved ==
    apiReadyPromise # NoPromise /\ promises[apiReadyPromise].state = "resolved"

\* C16: whatever the number of concurrent callApp invocations made before the
\* bridge is available, at most one polling interval is active, every waiting
\* caller holds the one cached promise, and callers of one promise get the
\* same outcome; once the promise has resolved every later call is given the
\* cached promise and creates no promise and no interval.
C16_OneSharedWait ==
    /\ [](/\ Cardinality(ActiveIntervals) <= 1
          /\ \A k \in Waiting : calls[k].promise = apiReadyPromise
          /\ \A k1, k2 \in Callers :
                (/\ calls[k1].pc = "settled" /\ calls[k2].pc = "settled"
                 /\ calls[k1].promise = calls[k2].promise)
                    => calls[k1].outcome = calls[k2].outcome)
    /\ [][\A k \in Callers :
            (calls[k].pc = "idle" /\ calls'[k].pc = "await" /\ CacheResolved)
                => /\ calls'[k].promise = apiReadyPromise
                   /\ promises' = promises
                   /\ apiReadyPromise' = apiReadyPromise]_vars

\* two callers wait on the same pending promise, before the bridge is there
C16_Witness ==
    /\ ~BridgeAvailable
    /\ Cardinality(Waiting) = 2
    /\ Cardinality(ActiveIntervals) = 1

\* C17 as stated: a promise resolves only if the bridge became available
\* within the timeout of its wait; otherwise it rejects.
C17_RejectsWhenNotAvailableInTime ==
    \A p \in DOMAIN promises :
        (promises[p].state = "resolved" /\ promises[p].startTime # NoTime)
            => bridgeAt - promises[p].startTime <= DefaultTimeout

\* C17: a poll that finds the bridge still unavailable more than the timeout
\* after the wait began rejects the shared promise, clears its interval and
\* resets the cache to null, and a promise rejects in no other way; the cache
\* never holds a rejected promise, so a later call starts a new wait; every
\* ensureApiReady promise eventually settles.
C17_TimeoutRejectsAndResets ==
    /\ [][\A p \in DOMAIN promises :
            /\ (promises[p].interval /\ ~promises'[p].interval /\ ~BridgeAvailable)
                  => /\ TimedOut(wallMs, promises[p].startTime, DefaultTimeout)
                     /\ promises'[p].state = "rejected"
                     /\ apiReadyPromise' = NoPromise
            /\ (promises[p].state # "rejected" /\ promises'[p].state = "rejected")
                  => /\ promises[p].interval /\ ~promises'[p].interval
                     /\ ~BridgeAvailable]_vars
    /\ [](\A p \in DOMAIN promises :
            promises[p].state = "rejected" => (~promises[p].interval /\ apiReadyPromise # p))
    /\ [][\A k \in Callers :
            (calls[k].pc = "idle" /\ calls'[k].pc = "await" /\ apiReadyPromise = NoPromise)
                => /\ calls'[k].promise = Len(promises) + 1
                   /\ Len(promises') = Len(promises) + 1]_vars
    /\ \A p \in 1..MaxPromises :
            (p \in DOMAIN promises /\ promises[p].state = "pending")
                ~> (p \in DOMAIN promises /\ promises[p].state # "pending")

\* the first wait timed out and was rejected; a later call started a new wait
C17_Witness ==
    /\ Len(promises) = 2
    /\ promises[1].state = "rejected"
    /\ apiReadyPromise = 2
    /\ promises[2].state = "pending"

(***************************************************************************)
(* Properties of the application start.                                    *)
(***************************************************************************)

\* number of renderApp and renderError invocations so far
Renders == renderAppCalls + renderErrorCalls

\* C18: waitForApi eventually invokes exactly one of renderApp and
\* renderError, exactly once, and no check is scheduled afterwards;
\* renderError is invoked only by a check that finds the bridge unavailable
\* more than MAX_WAIT_TIME after the start, the bridge having been
\* unavailable until then.
C18_RendersExactlyOnce ==
    /\ [](Renders <= 1)
    /\ [](Renders = 1 => pendingChecks = 0)
    /\ [][renderErrorCalls' > renderErrorCalls
            => (~BridgeAvailable /\ wallMs - bootStartTime > MAX_WAIT_TIME)]_vars
    /\ [](renderErrorCalls > 0
            => (~BridgeAvailable \/ bridgeAt - bootStartTime > MAX_WAIT_TIME))
    /\ <>(Renders = 1)

\* the bridge never came in time: the error page has been rendered
C18_Witness ==
    /\ renderErrorCalls = 1
    /\ renderAppCalls = 0
    /\ pendingChecks = 0

(***************************************************************************)
(* Properties of the ThemeProvider.                                        *)
(***************************************************************************)

\* a step in which a backend push changes the theme or the font: no UI call
\* is issued and no fetch result is handled in it
PushApplied ==
    /\ theme' # theme \/ font' # font
    /\ updateCalls' = updateCalls
    /\ appearanceCall' = appearanceCall

\* C19: window.frontendApi is installed only after the initial get_appearance
\* call has settled; a backend push is applied only after the result of the
\* initial fetch has been handled, so that result never overwrites a push.
C19_FrontendApiAfterInitialFetch ==
    /\ [](frontendApi => appearanceCall.stage = "done")
    /\ [][PushApplied => appearanceCall.stage = "done"]_vars
    /\ [][(appearanceCall.stage # "done" /\ appearanceCall'.stage = "done")
            => (~frontendApi /\ frontendApi')]_vars

\* the initial fetch failed, frontendApi was installed all the same and a
\* pushed theme has been applied
C19_Witness ==
    /\ frontendApi
    /\ appearanceCall.stage = "done" /\ ~appearanceCall.ok
    /\ updateCalls = <<>>
    /\ theme = "rose"

\* s has no whitespace at either end
IsTrimmed(s) == s = <<>> \/ (Head(s) \notin Whitespace /\ s[Len(s)] \notin Whitespace)

\* r is s without the whitespace at its two ends
IsTrimOf(r, s) ==
    /\ IsTrimmed(r)
    /\ \E i \in 0..Len(s) : \E j \in i..Len(s) :
          /\ r = SubSeq(s, i + 1, j)
          /\ \A x \in (1..i) \cup ((j + 1)..Len(s)) : s[x] \in Whitespace

\* C20: setTheme and setFont update the local state in the step that issues
\* update_appearance, before the call completes; the font stored and sent is
\* the trimmed name; a failed update_appearance changes neither the theme
\* nor the font.
C20_OptimisticUpdateNoRollback ==
    /\ [][Len(updateCalls') > Len(updateCalls) =>
            LET u == updateCalls'[Len(updateCalls')]
            IN  /\ u.stage = "req"
                /\ u.payload.kind = "theme" => theme' = u.payload.theme
                /\ u.payload.kind = "font" =>
                      (font' = u.payload.font /\ IsTrimOf(u.payload.font, u.fontArg))]_vars
    /\ [][\A i \in DOMAIN updateCalls :
            (updateCalls[i].stage = "resp" /\ updateCalls'[i].stage = "done")
                => (theme' = theme /\ font' = font /\ stored' = stored)]_vars
    /\ [][\A i \in DOMAIN updateCalls :
            (updateCalls[i].stage = "req" /\ updateCalls'[i].stage = "resp"
             /\ updateCalls'[i].ok /\ updateCalls[i].payload.kind = "font")
                => (stored'.font = FontOf(updateCalls[i].payload.font)
                    /\ IsTrimOf(stored'.font.value, updateCalls[i].fontArg))]_vars

\* setFont was given a name with surrounding whitespace; update_appearance
\* failed and the font is still the trimmed name
C20_Witness ==
    \E i \in DOMAIN updateCalls :
        /\ updateCalls[i].stage = "done" /\ ~updateCalls[i].ok
        /\ updateCalls[i].payload.kind = "font"
        /\ updateCalls[i].fontArg # updateCalls[i].payload.font
        /\ font = updateCalls[i].payload.font
        /\ font # <<>>

====
